---------------------------- MODULE Spec2Model ----------------------------
(***************************************************************************)
(* declick-rs: the WAVE header parser (src/src/wav.rs) and its driver      *)
(* (src/src/main.rs).                                                      *)
(*                                                                         *)
(* The driver calls parse_wave_header once on standard input.  The parser  *)
(* issues one Read::read call on a 44-byte buffer, decodes thirteen        *)
(* little-endian fields, validates five of them and returns either the     *)
(* header or an error string.  The driver prints the header (Display) or   *)
(* the error and exits.                                                    *)
(*                                                                         *)
(* Bytes are naturals in 0..255, text is a TLA+ string.  TLC's integers    *)
(* are 32-bit signed, so the input sets keep the top byte of every 32-bit  *)
(* field below 128.                                                        *)
(***************************************************************************)
EXTENDS Integers, Sequences, FiniteSets, TLC

VARIABLES
    stream,      \* the bytes the source provides before end-of-stream
    pos,         \* number of bytes consumed from the source so far
    reads,       \* number of read calls issued on the source
    buf,         \* parse_wave_header: let mut buf = [0; 44]
    nread,       \* parse_wave_header: the n of Ok(n), -1 before the read or on Err
    header,      \* parse_wave_header: the local header (NoHeader before decoding)
    ret,         \* the Result parse_wave_header returned to main
    calls,       \* number of calls of parse_wave_header
    steps,       \* the stages run so far, in order
    stdout,      \* text written to standard output
    stderr,      \* text written to standard error
    exit,        \* process exit status, -1 while running
    pc           \* position of the program

vars == <<stream, pos, reads, buf, nread, header, ret, calls, steps,
          stdout, stderr, exit, pc>>

-----------------------------------------------------------------------------
(* Program constants *)

HeaderSize == 44
RiffMagic == 1179011410     \* 0x46464952
WaveMagic == 1163280727     \* 0x45564157
FmtMagic == 544501094       \* 0x20746d66
FmtChunkSize == 16
PcmFormat == 1
ExitFailure == 1
ExitSuccess == 0

(* Bounds of the model *)

MaxExtra == 2               \* payload bytes that may follow the header

-----------------------------------------------------------------------------
(* Result values *)

Ok == [ok |-> TRUE, err |-> ""]
Err(e) == [ok |-> FALSE, err |-> e]

NoHeader == [absent |-> TRUE]
NoResult == [pending |-> TRUE]
RetErr(e) == [ok |-> FALSE, err |-> e, header |-> NoHeader]
RetOk(h) == [ok |-> TRUE, err |-> "", header |-> h]

-----------------------------------------------------------------------------
(* Formatting: Rust's {} and {:x} on unsigned integers *)

DecDigit(d) == SubSeq("0123456789", d + 1, d + 1)
HexDigit(d) == SubSeq("0123456789abcdef", d + 1, d + 1)

RECURSIVE Display(_)
Display(n) == IF n < 10 THEN DecDigit(n)
              ELSE Display(n \div 10) \o DecDigit(n % 10)

RECURSIVE LowerHex(_)
LowerHex(n) == IF n < 16 THEN HexDigit(n)
               ELSE LowerHex(n \div 16) \o HexDigit(n % 16)

-----------------------------------------------------------------------------
(* Byte-order helpers *)

RECURSIVE from_le_bytes(_)
from_le_bytes(bytes) ==
    IF bytes = <<>> THEN 0
    ELSE Head(bytes) + 256 * from_le_bytes(Tail(bytes))

RECURSIVE from_be_bytes(_)
from_be_bytes(bytes) ==
    IF bytes = <<>> THEN 0
    ELSE bytes[Len(bytes)] + 256 * from_be_bytes(SubSeq(bytes, 1, Len(bytes) - 1))

\* variant: the bytes taken big-endian (u32::from_be_bytes)
slice_to_u32_BigEndian(array) == from_be_bytes(array)

slice_to_u32(array) == from_le_bytes(array)
slice_to_u16(array) == from_le_bytes(array)

\* Rust's buf[a..b]: the bytes at offsets a, ..., b-1
Slice(b, from, to) == SubSeq(b, from + 1, to)

-----------------------------------------------------------------------------
(* The header layout: the ranges parse_wave_header slices the buffer at *)

FieldRange ==
    [chunk_id        |-> <<0, 4>>,
     chunk_size      |-> <<4, 8>>,
     format          |-> <<8, 12>>,
     sub_chunk1_id   |-> <<12, 16>>,
     sub_chunk1_size |-> <<16, 20>>,
     audio_format    |-> <<20, 22>>,
     num_channels    |-> <<22, 24>>,
     sample_rate     |-> <<24, 28>>,
     byte_rate       |-> <<28, 32>>,
     block_align     |-> <<32, 34>>,
     bits_per_sample |-> <<34, 36>>,
     sub_chunk2_id   |-> <<36, 40>>,
     sub_chunk2_size |-> <<40, 44>>]

FieldNames == DOMAIN FieldRange

FieldBytes(b, f) == Slice(b, FieldRange[f][1], FieldRange[f][2])

DecodeHeader(b) ==
    [chunk_id        |-> slice_to_u32(FieldBytes(b, "chunk_id")),
     chunk_size      |-> slice_to_u32(FieldBytes(b, "chunk_size")),
     format          |-> slice_to_u32(FieldBytes(b, "format")),
     sub_chunk1_id   |-> slice_to_u32(FieldBytes(b, "sub_chunk1_id")),
     sub_chunk1_size |-> slice_to_u32(FieldBytes(b, "sub_chunk1_size")),
     audio_format    |-> slice_to_u16(FieldBytes(b, "audio_format")),
     num_channels    |-> slice_to_u16(FieldBytes(b, "num_channels")),
     sample_rate     |-> slice_to_u32(FieldBytes(b, "sample_rate")),
     byte_rate       |-> slice_to_u32(FieldBytes(b, "byte_rate")),
     block_align     |-> slice_to_u16(FieldBytes(b, "block_align")),
     bits_per_sample |-> slice_to_u16(FieldBytes(b, "bits_per_sample")),
     sub_chunk2_id   |-> slice_to_u32(FieldBytes(b, "sub_chunk2_id")),
     sub_chunk2_size |-> slice_to_u32(FieldBytes(b, "sub_chunk2_size"))]

-----------------------------------------------------------------------------
(* Error messages *)

ShortReadMsg(n) ==
    "WAVE header size must be 44-bytes long, but got " \o Display(n) \o "."
\* variant: the found value formatted with {} after the 0x
RiffMsg_Decimal(v) ==
    "Stream must have 'RIFF' header, but got 0x" \o Display(v) \o "."
RiffMsg(v) ==
    "Stream must have 'RIFF' header, but got 0x" \o LowerHex(v) \o "."
WaveMsg(v) ==
    "Stream must have 'WAVE' format, but got 0x" \o LowerHex(v) \o "."
FmtMsg(v) ==
    "Stream must have 'fmt ' sub chuck, but got 0x" \o LowerHex(v) \o "."
FmtSizeMsg(v) ==
    "Stream 'fmt ' sub chuck size must be 16, but got " \o Display(v) \o "."
AudioFormatMsg(v) ==
    "Stream audio format must be 1 (PCM), but got " \o Display(v) \o "."

(* WaveHeader::is_valid *)

\* variant: the audio_format check is missing
is_valid_SkipsAudioFormat(h) ==
    IF h.chunk_id # RiffMagic THEN Err(RiffMsg(h.chunk_id))
    ELSE IF h.format # WaveMagic THEN Err(WaveMsg(h.format))
    ELSE IF h.sub_chunk1_id # FmtMagic THEN Err(FmtMsg(h.sub_chunk1_id))
    ELSE IF h.sub_chunk1_size # FmtChunkSize
         THEN Err(FmtSizeMsg(h.sub_chunk1_size))
    ELSE Ok

\* variant: format is checked before chunk_id
is_valid_FormatFirst(h) ==
    IF h.format # WaveMagic THEN Err(WaveMsg(h.format))
    ELSE IF h.chunk_id # RiffMagic THEN Err(RiffMsg(h.chunk_id))
    ELSE IF h.sub_chunk1_id # FmtMagic THEN Err(FmtMsg(h.sub_chunk1_id))
    ELSE IF h.sub_chunk1_size # FmtChunkSize
         THEN Err(FmtSizeMsg(h.sub_chunk1_size))
    ELSE IF h.audio_format # PcmFormat
         THEN Err(AudioFormatMsg(h.audio_format))
    ELSE Ok

\* variant: sub_chunk2_id is required to be "data" (0x61746164) as well
is_valid_ChecksData(h) ==
    IF h.chunk_id # RiffMagic THEN Err(RiffMsg(h.chunk_id))
    ELSE IF h.format # WaveMagic THEN Err(WaveMsg(h.format))
    ELSE IF h.sub_chunk1_id # FmtMagic THEN Err(FmtMsg(h.sub_chunk1_id))
    ELSE IF h.sub_chunk1_size # FmtChunkSize
         THEN Err(FmtSizeMsg(h.sub_chunk1_size))
    ELSE IF h.audio_format # PcmFormat
         THEN Err(AudioFormatMsg(h.audio_format))
    ELSE IF h.sub_chunk2_id # 1635017060
         THEN Err("Stream must have 'data' sub chuck, but got 0x"
                      \o LowerHex(h.sub_chunk2_id) \o ".")
    ELSE Ok

is_valid(h) ==
    IF h.chunk_id # RiffMagic THEN Err(RiffMsg(h.chunk_id))
    ELSE IF h.format # WaveMagic THEN Err(WaveMsg(h.format))
    ELSE IF h.sub_chunk1_id # FmtMagic THEN Err(FmtMsg(h.sub_chunk1_id))
    ELSE IF h.sub_chunk1_size # FmtChunkSize
         THEN Err(FmtSizeMsg(h.sub_chunk1_size))
    ELSE IF h.audio_format # PcmFormat
         THEN Err(AudioFormatMsg(h.audio_format))
    ELSE Ok

-----------------------------------------------------------------------------
(* impl Display for WaveHeader: the raw string, then writeln!'s newline *)

HexFields == {"chunk_id", "sub_chunk1_id"}

FormatField(h, f) ==
    IF f \in HexFields THEN "0x" \o LowerHex(h[f]) ELSE Display(h[f])

fmt(h) ==
    "\nWaveHeader {\n"
    \o "    chunk_id: " \o FormatField(h, "chunk_id") \o "\n"
    \o "    chunk_size: " \o FormatField(h, "chunk_size") \o "\n"
    \o "    format: " \o FormatField(h, "format") \o "\n"
    \o "    sub_chunk1_id: " \o FormatField(h, "sub_chunk1_id") \o "\n"
    \o "    sub_chunk1_size: " \o FormatField(h, "sub_chunk1_size") \o "\n"
    \o "    audio_format: " \o FormatField(h, "audio_format") \o "\n"
    \o "    num_channels: " \o FormatField(h, "num_channels") \o "\n"
    \o "    sample_rate: " \o FormatField(h, "sample_rate") \o "\n"
    \o "    byte_rate: " \o FormatField(h, "byte_rate") \o "\n"
    \o "    block_align: " \o FormatField(h, "block_align") \o "\n"
    \o "    bits_per_sample:" \o FormatField(h, "bits_per_sample") \o " \n"
    \o "    sub_chunk2_id: " \o FormatField(h, "sub_chunk2_id") \o "\n"
    \o "    sub_chunk2_size: " \o FormatField(h, "sub_chunk2_size") \o "\n"
    \o "}"
    \o "\n"

-----------------------------------------------------------------------------
(* Inputs: the byte sources the program is run on *)

\* the canonical header: RIFF, 36, WAVE, "fmt ", 16, PCM, stereo, 44100 Hz,
\* 176400 bytes/s, block align 4, 16 bits, "data", 0
Canonical ==
    [chunk_id        |-> <<82, 73, 70, 70>>,
     chunk_size      |-> <<36, 0, 0, 0>>,
     format          |-> <<87, 65, 86, 69>>,
     sub_chunk1_id   |-> <<102, 109, 116, 32>>,
     sub_chunk1_size |-> <<16, 0, 0, 0>>,
     audio_format    |-> <<1, 0>>,
     num_channels    |-> <<2, 0>>,
     sample_rate     |-> <<68, 172, 0, 0>>,
     byte_rate       |-> <<16, 177, 2, 0>>,
     block_align     |-> <<4, 0>>,
     bits_per_sample |-> <<16, 0>>,
     sub_chunk2_id   |-> <<100, 97, 116, 97>>,
     sub_chunk2_size |-> <<0, 0, 0, 0>>]

\* another value of each field: RIFX, 2084, WAVX, "fmt\0", 18, IEEE float (3),
\* mono, 8000 Hz, 0x04030201, 0x0201, 8 bits, "LIST", 2048
Alternate ==
    [chunk_id        |-> <<82, 73, 70, 88>>,
     chunk_size      |-> <<36, 8, 0, 0>>,
     format          |-> <<87, 65, 86, 88>>,
     sub_chunk1_id   |-> <<102, 109, 116, 0>>,
     sub_chunk1_size |-> <<18, 0, 0, 0>>,
     audio_format    |-> <<3, 0>>,
     num_channels    |-> <<1, 0>>,
     sample_rate     |-> <<64, 31, 0, 0>>,
     byte_rate       |-> <<1, 2, 3, 4>>,
     block_align     |-> <<1, 2>>,
     bits_per_sample |-> <<8, 0>>,
     sub_chunk2_id   |-> <<76, 73, 83, 84>>,
     sub_chunk2_size |-> <<0, 8, 0, 0>>]

CheckedFields ==
    {"chunk_id", "format", "sub_chunk1_id", "sub_chunk1_size", "audio_format"}
UncheckedFields == FieldNames \ CheckedFields

\* which fields take their alternate value: any of the validated fields,
\* and none or all of the others
Variations ==
    {c \cup u : c \in SUBSET CheckedFields, u \in {{}, UncheckedFields}}

Pick(alt, f) == IF f \in alt THEN Alternate[f] ELSE Canonical[f]

HeaderBytes(alt) ==
    Pick(alt, "chunk_id") \o Pick(alt, "chunk_size") \o Pick(alt, "format")
    \o Pick(alt, "sub_chunk1_id") \o Pick(alt, "sub_chunk1_size")
    \o Pick(alt, "audio_format") \o Pick(alt, "num_channels")
    \o Pick(alt, "sample_rate") \o Pick(alt, "byte_rate")
    \o Pick(alt, "block_align") \o Pick(alt, "bits_per_sample")
    \o Pick(alt, "sub_chunk2_id") \o Pick(alt, "sub_chunk2_size")

Payload == [i \in 1..MaxExtra |-> 255]

\* a source holds the first len bytes of a header followed by the payload
Streams ==
    {SubSeq(HeaderBytes(alt) \o Payload, 1, len) :
        alt \in Variations, len \in 0..(HeaderSize + MaxExtra)}

\* the text of an io::Error of the underlying read
IoErrors == {"Broken pipe (os error 32)", "Is a directory (os error 21)"}

-----------------------------------------------------------------------------
(* The program *)

\* variant: a buffer two bytes longer than the header
NewBuf_Oversized == [i \in 1..(HeaderSize + 2) |-> 0]

\* let mut buf = [0; 44]
NewBuf == [i \in 1..HeaderSize |-> 0]

Init ==
    /\ stream \in Streams
    /\ pos = 0
    /\ reads = 0
    /\ buf = NewBuf
    /\ nread = -1
    /\ header = NoHeader
    /\ ret = NoResult
    /\ calls = 0
    /\ steps = <<>>
    /\ stdout = ""
    /\ stderr = ""
    /\ exit = -1
    /\ pc = "main"

\* main: wav::parse_wave_header(&mut file)
MainCall ==
    /\ pc = "main"
    /\ calls' = calls + 1
    /\ pc' = "read"
    /\ UNCHANGED <<stream, pos, reads, buf, nread, header, ret, steps,
                   stdout, stderr, exit>>

\* Read::read on a buffer of length cap: at end-of-stream it returns 0, and
\* otherwise any number of bytes from 1 up to what the buffer and the source hold
ReadCounts(cap) ==
    IF Len(stream) = pos THEN {0}
    ELSE 1..(IF cap < Len(stream) - pos THEN cap ELSE Len(stream) - pos)

ReadInto(b, k) ==
    [i \in 1..Len(b) |-> IF i <= k THEN stream[pos + i] ELSE b[i]]

\* stream.read(&mut buf) fails: Err(e) => return Err(e.to_string())
ReadErr ==
    /\ pc = "read"
    /\ \E e \in IoErrors : ret' = RetErr(e)
    /\ reads' = reads + 1
    /\ steps' = Append(steps, "read")
    /\ pc' = "returned"
    /\ UNCHANGED <<stream, pos, buf, nread, header, calls, stdout, stderr, exit>>

\* stream.read(&mut buf) returns Ok(n) with n != 44
ReadShort ==
    /\ pc = "read"
    /\ \E k \in ReadCounts(Len(buf)) :
        /\ k # HeaderSize
        /\ buf' = ReadInto(buf, k)
        /\ pos' = pos + k
        /\ nread' = k
        /\ ret' = RetErr(ShortReadMsg(k))
    /\ reads' = reads + 1
    /\ steps' = Append(steps, "read")
    /\ pc' = "returned"
    /\ UNCHANGED <<stream, header, calls, stdout, stderr, exit>>

\* stream.read(&mut buf) returns Ok(44)
ReadFull ==
    /\ pc = "read"
    /\ \E k \in ReadCounts(Len(buf)) :
        /\ k = HeaderSize
        /\ buf' = ReadInto(buf, k)
        /\ pos' = pos + k
        /\ nread' = k
    /\ reads' = reads + 1
    /\ steps' = Append(steps, "read")
    /\ pc' = "decode"
    /\ UNCHANGED <<stream, header, ret, calls, stdout, stderr, exit>>

\* let header = WaveHeader { ... }
Decode ==
    /\ pc = "decode"
    /\ header' = DecodeHeader(buf)
    /\ steps' = Append(steps, "decode")
    /\ pc' = "validate"
    /\ UNCHANGED <<stream, pos, reads, buf, nread, ret, calls, stdout, stderr, exit>>

\* if let Err(e) = header.is_valid() { return Err(e.to_string()) }
ValidateErr ==
    /\ pc = "validate"
    /\ ~is_valid(header).ok
    /\ ret' = RetErr(is_valid(header).err)
    /\ steps' = Append(steps, "validate")
    /\ pc' = "returned"
    /\ UNCHANGED <<stream, pos, reads, buf, nread, header, calls, stdout, stderr, exit>>

\* Ok(header)
ValidateOk ==
    /\ pc = "validate"
    /\ is_valid(header).ok
    /\ ret' = RetOk(header)
    /\ steps' = Append(steps, "validate")
    /\ pc' = "returned"
    /\ UNCHANGED <<stream, pos, reads, buf, nread, header, calls, stdout, stderr, exit>>

\* variant: the error is printed and the driver goes on to exit normally
MainErr_ExitsZero ==
    /\ pc = "returned"
    /\ ~ret.ok
    /\ stderr' = stderr \o "Error: " \o ret.err \o "\n"
    /\ exit' = ExitSuccess
    /\ pc' = "done"
    /\ UNCHANGED <<stream, pos, reads, buf, nread, header, ret, calls, steps, stdout>>

\* main: Err(e) => { eprintln!("Error: {e}"); std::process::exit(1); }
MainErr ==
    /\ pc = "returned"
    /\ ~ret.ok
    /\ stderr' = stderr \o "Error: " \o ret.err \o "\n"
    /\ exit' = ExitFailure
    /\ pc' = "done"
    /\ UNCHANGED <<stream, pos, reads, buf, nread, header, ret, calls, steps, stdout>>

\* main: Ok(h) => h, then println!("{}", header) and the return from main
MainPrint ==
    /\ pc = "returned"
    /\ ret.ok
    /\ stdout' = stdout \o fmt(ret.header) \o "\n"
    /\ steps' = Append(steps, "render")
    /\ exit' = ExitSuccess
    /\ pc' = "done"
    /\ UNCHANGED <<stream, pos, reads, buf, nread, header, ret, calls, stderr>>

Next ==
    \/ MainCall
    \/ ReadErr
    \/ ReadShort
    \/ ReadFull
    \/ Decode
    \/ ValidateErr
    \/ ValidateOk
    \/ MainErr
    \/ MainPrint

Spec == Init /\ [][Next]_vars

-----------------------------------------------------------------------------
(* Helpers of the properties *)

Contains(s, sub) ==
    \E i \in 1..(Len(s) - Len(sub) + 1) : SubSeq(s, i, i + Len(sub) - 1) = sub

StartsWith(s, p) == Len(s) >= Len(p) /\ SubSeq(s, 1, Len(p)) = p

Returned == pc \in {"returned", "done"}

\* the bytes of the four ASCII tags
AsciiRIFF == <<82, 73, 70, 70>>
AsciiWAVE == <<87, 65, 86, 69>>
AsciiFmt == <<102, 109, 116, 32>>

\* the five conditions, read off the 44 bytes of a buffer
BufferConforms(b) ==
    /\ SubSeq(b, 1, 4) = AsciiRIFF
    /\ SubSeq(b, 9, 12) = AsciiWAVE
    /\ SubSeq(b, 13, 16) = AsciiFmt
    /\ SubSeq(b, 17, 20) = <<16, 0, 0, 0>>
    /\ SubSeq(b, 21, 22) = <<1, 0>>

\* the five conditions, on a decoded header
HeaderConforms(h) ==
    /\ h.chunk_id = RiffMagic
    /\ h.format = WaveMagic
    /\ h.sub_chunk1_id = FmtMagic
    /\ h.sub_chunk1_size = 16
    /\ h.audio_format = 1

\* the order the conditions are listed in, and the value each field must have
CheckOrder ==
    <<"chunk_id", "format", "sub_chunk1_id", "sub_chunk1_size", "audio_format">>
Required ==
    [chunk_id |-> RiffMagic, format |-> WaveMagic, sub_chunk1_id |-> FmtMagic,
     sub_chunk1_size |-> 16, audio_format |-> 1]
Violated(h) == {i \in 1..Len(CheckOrder) : h[CheckOrder[i]] # Required[CheckOrder[i]]}

\* the validation error of a field, carrying value v
KindMsg(f, v) ==
    CASE f = "chunk_id" -> RiffMsg(v)
      [] f = "format" -> WaveMsg(v)
      [] f = "sub_chunk1_id" -> FmtMsg(v)
      [] f = "sub_chunk1_size" -> FmtSizeMsg(v)
      [] f = "audio_format" -> AudioFormatMsg(v)

IsShortRead(m) == StartsWith(m, "WAVE header size must be 44-bytes long")

-----------------------------------------------------------------------------
(* C1: parse_wave_header returns a header exactly when the read yielded 44 *)
(* bytes and the five conditions hold of them; otherwise it returns an     *)
(* error and no header, so a returned header always passes validation.     *)
C1_AllOrNothing ==
    Returned =>
        /\ ret.ok <=> (nread = 44 /\ BufferConforms(buf))
        /\ ret.ok => (ret.header # NoHeader /\ ret.header = header
                      /\ HeaderConforms(ret.header) /\ ret.err = "")
        /\ ~ret.ok => (ret.header = NoHeader /\ ret.err # "")

\* a header was decoded, failed validation and was not returned
C1_Witness ==
    /\ Returned
    /\ nread = 44
    /\ header # NoHeader
    /\ ~ret.ok
    /\ ret.header = NoHeader

-----------------------------------------------------------------------------
(* C2: when several of the five fields are invalid, the error returned is  *)
(* the one of the earliest invalid field in the order chunk_id, format,    *)
(* sub_chunk1_id, sub_chunk1_size, audio_format, and of no later one.      *)
C2_FirstViolationWins ==
    (Returned /\ header # NoHeader /\ Violated(header) # {}) =>
        LET bad == Violated(header)
            first == CHOOSE i \in bad : \A j \in bad : i <= j
        IN /\ ~ret.ok
           /\ ret.err = KindMsg(CheckOrder[first], header[CheckOrder[first]])
           /\ \A j \in bad \ {first} :
                 ret.err # KindMsg(CheckOrder[j], header[CheckOrder[j]])

\* chunk_id and format are both invalid and the 'RIFF' mismatch is reported
C2_Witness ==
    /\ Returned
    /\ header # NoHeader
    /\ {1, 2} \subseteq Violated(header)
    /\ StartsWith(ret.err, "Stream must have 'RIFF' header")

-----------------------------------------------------------------------------
(* C3: a source that provides at least 44 bytes before end-of-stream never *)
(* gets the short-read error, however it splits the bytes across reads:    *)
(* unless the read fails, the first 44 bytes are decoded.                  *)
C3_NoShortReadWhenEnoughBytes ==
    (Returned /\ Len(stream) >= 44 /\ ret.err \notin IoErrors) =>
        /\ ~IsShortRead(ret.err)
        /\ header = DecodeHeader(SubSeq(stream, 1, 44))

-----------------------------------------------------------------------------
(* C4: a source that provides only n < 44 bytes before end-of-stream gets  *)
(* the short-read error reporting exactly n, with nothing decoded; a       *)
(* failed read gets the I/O error instead, after a single read call.       *)
C4_ShortReadReportsStreamLength ==
    (Returned /\ Len(stream) < 44) =>
        /\ ~ret.ok
        /\ header = NoHeader
        /\ reads = 1
        /\ \/ ret.err \in IoErrors /\ nread = -1
           \/ ret.err = "WAVE header size must be 44-bytes long, but got "
                            \o Display(Len(stream)) \o "."

-----------------------------------------------------------------------------
(* C5: a call consumes at most 44 bytes of the source, exactly 44 once it  *)
(* has got as far as decoding, and issues a single read call.              *)
C5_ConsumesAtMostHeader ==
    /\ pos <= 44
    /\ pos <= Len(stream)
    /\ reads <= 1
    /\ "decode" \in {steps[i] : i \in 1..Len(steps)} => pos = 44
    /\ header # NoHeader => pos = 44
    /\ Returned => reads = 1

\* the source holds payload after the header, the header was decoded, and
\* the payload was left unread
C5_Witness ==
    /\ pc = "done"
    /\ Len(stream) > 44
    /\ header # NoHeader
    /\ pos = 44
    /\ reads = 1

-----------------------------------------------------------------------------
(* Helpers of C6 *)

LayoutNames ==
    <<"chunk_id", "chunk_size", "format", "sub_chunk1_id", "sub_chunk1_size",
      "audio_format", "num_channels", "sample_rate", "byte_rate",
      "block_align", "bits_per_sample", "sub_chunk2_id", "sub_chunk2_size">>
LayoutOffsets == <<0, 4, 8, 12, 16, 20, 22, 24, 28, 32, 34, 36, 40>>
LayoutSizes == <<4, 4, 4, 4, 4, 2, 2, 4, 4, 2, 2, 4, 4>>

\* the little-endian value of the size bytes of b at offset off
LittleEndian(b, off, size) ==
    IF size = 2
    THEN b[off + 1] + 256 * b[off + 2]
    ELSE b[off + 1] + 256 * b[off + 2] + 65536 * b[off + 3]
         + 16777216 * b[off + 4]

(* C6: every field is decoded little-endian from its fixed offset: the 13  *)
(* fields are the little-endian values of the bytes at offsets 0, 4, 8,    *)
(* 12, 16, 20, 22, 24, 28, 32, 34, 36, 40 with sizes 4, 4, 4, 4, 4, 2, 2,  *)
(* 4, 4, 2, 2, 4, 4; the slices are disjoint and cover the 44 bytes; and   *)
(* [1,2,3,4] decodes to 0x04030201, [1,2] to 0x0201.                       *)
C6_LittleEndianLayout ==
    header # NoHeader =>
        /\ slice_to_u32(<<1, 2, 3, 4>>) = 67305985
        /\ slice_to_u16(<<1, 2>>) = 513
        /\ \A i \in 1..13 :
              FieldRange[LayoutNames[i]]
                  = <<LayoutOffsets[i], LayoutOffsets[i] + LayoutSizes[i]>>
        /\ \A byte \in 0..43 :
              Cardinality({f \in FieldNames :
                              /\ FieldRange[f][1] <= byte
                              /\ byte < FieldRange[f][2]}) = 1
        /\ \A f \in FieldNames : 0 <= FieldRange[f][1] /\ FieldRange[f][2] <= 44
        /\ DOMAIN header = {LayoutNames[i] : i \in 1..13}
        /\ \A i \in 1..13 :
              header[LayoutNames[i]]
                  = LittleEndian(buf, LayoutOffsets[i], LayoutSizes[i])
        /\ \A i \in {1, 5, 9, 13, 17, 25, 29, 37, 41} :
              slice_to_u32(SubSeq(buf, i, i + 3))
                  = buf[i] + 256 * buf[i + 1] + 65536 * buf[i + 2]
                    + 16777216 * buf[i + 3]
        /\ \A i \in 1..43 :
              slice_to_u16(SubSeq(buf, i, i + 1)) = buf[i] + 256 * buf[i + 1]

\* a header decoded from a buffer whose byte_rate bytes are 1, 2, 3, 4 and
\* whose block_align bytes are 1, 2
C6_Witness ==
    /\ header # NoHeader
    /\ SubSeq(buf, 29, 32) = <<1, 2, 3, 4>>
    /\ SubSeq(buf, 33, 34) = <<1, 2>>
    /\ header.byte_rate = 67305985
    /\ header.block_align = 513

-----------------------------------------------------------------------------
(* Helpers of C7 *)

OtherValues == {0, 65535}

\* the headers that agree with h on the five validated fields
SameCheckedFields(h) ==
    {[f \in FieldNames |-> IF f \in CheckedFields THEN h[f] ELSE g[f]] :
        g \in [UncheckedFields -> OtherValues]}

(* C7: the validation outcome depends only on chunk_id, format,            *)
(* sub_chunk1_id, sub_chunk1_size and audio_format: changing the other     *)
(* eight fields of a header never changes the result of is_valid, and a    *)
(* header with the right magics, size 16 and format 1 validates whatever   *)
(* the other fields hold.                                                  *)
C7_OnlyCheckedFieldsMatter ==
    (header # NoHeader /\ pc = "validate") =>
        LET r == is_valid(header)
        IN /\ HeaderConforms(header) => r.ok
           /\ \A g \in SameCheckedFields(header) : is_valid(g) = r

\* a header with sub_chunk2_id "LIST" and byte_rate, block_align that do not
\* follow from the other fields is returned as valid
C7_Witness ==
    /\ Returned
    /\ ret.ok
    /\ ret.header.sub_chunk2_id = 1414744396
    /\ ret.header.byte_rate
          # ret.header.sample_rate * ret.header.num_channels
              * (ret.header.bits_per_sample \div 8)
    /\ ret.header.block_align
          # ret.header.num_channels * (ret.header.bits_per_sample \div 8)

-----------------------------------------------------------------------------
(* Helpers of C8 *)

Marker == "but got "

\* where the marker starts in m, 0 if nowhere
MarkerAt(m) ==
    IF Contains(m, Marker)
    THEN CHOOSE i \in 1..Len(m) : SubSeq(m, i, i + Len(Marker) - 1) = Marker
    ELSE 0

\* the text before the value, and the value's text up to the final "."
Stem(m) == SubSeq(m, 1, MarkerAt(m) - 1)
ValueText(m) == SubSeq(m, MarkerAt(m) + Len(Marker), Len(m) - 1)

DigitOf(c, digits) ==
    IF \E d \in 1..Len(digits) : SubSeq(digits, d, d) = c
    THEN (CHOOSE d \in 1..Len(digits) : SubSeq(digits, d, d) = c) - 1
    ELSE -1

RECURSIVE ParseDigits(_, _)
\* the number s denotes in the base of digits; -1 if it denotes none, or one
\* above 2^31 - 1
ParseDigits(s, digits) ==
    IF s = "" THEN -1
    ELSE LET last == DigitOf(SubSeq(s, Len(s), Len(s)), digits)
             init == IF Len(s) = 1 THEN 0
                     ELSE ParseDigits(SubSeq(s, 1, Len(s) - 1), digits)
         IN IF last = -1 \/ init = -1 THEN -1
            ELSE IF init > (2147483647 - last) \div Len(digits) THEN -1
            ELSE init * Len(digits) + last

ParseHex(s) == ParseDigits(s, "0123456789abcdef")
ParseDec(s) == ParseDigits(s, "0123456789")

ExpectedTag ==
    [chunk_id |-> "'RIFF'", format |-> "'WAVE'", sub_chunk1_id |-> "'fmt '"]

\* m is the error of field f and carries value v
Carries(m, f, v) ==
    /\ MarkerAt(m) > 0
    /\ SubSeq(m, Len(m), Len(m)) = "."
    /\ Stem(m) = Stem(KindMsg(f, 0))
    /\ IF f \in DOMAIN ExpectedTag
       THEN /\ Contains(Stem(m), ExpectedTag[f])
            /\ StartsWith(ValueText(m), "0x")
            /\ ParseHex(SubSeq(ValueText(m), 3, Len(ValueText(m)))) = v
       ELSE ParseDec(ValueText(m)) = v

(* C8: a validation error carries the value found in the failing field: a  *)
(* magic mismatch names the expected tag and gives the value in            *)
(* hexadecimal, the other two give it in decimal; the five kinds of error  *)
(* differ from one another.                                                *)
C8_ErrorsCarryFoundValue ==
    (Returned /\ header # NoHeader /\ ~ret.ok) =>
        /\ \E f \in CheckedFields :
              /\ header[f] # Required[f]
              /\ Carries(ret.err, f, header[f])
        /\ \A f, g \in CheckedFields :
              f # g => /\ Stem(KindMsg(f, header[f])) # Stem(KindMsg(g, header[g]))
                       /\ KindMsg(f, header[f]) # KindMsg(g, header[g])
        /\ ~IsShortRead(ret.err)
        /\ ret.err \notin IoErrors

\* an otherwise valid header with audio_format = 3 is refused, reporting 3
C8_Witness ==
    /\ Returned
    /\ header # NoHeader
    /\ Violated(header) = {5}
    /\ header.audio_format = 3
    /\ ret.err = "Stream audio format must be 1 (PCM), but got 3."

-----------------------------------------------------------------------------
(* Helpers of C9 *)

MagicFields == {"chunk_id", "format", "sub_chunk1_id", "sub_chunk2_id"}

Shows(text, h, f) ==
    IF f \in MagicFields
    THEN Contains(text, f \o ": 0x" \o LowerHex(h[f]) \o "\n")
    ELSE \/ Contains(text, f \o ": " \o Display(h[f]) \o "\n")
         \/ Contains(text, f \o ":" \o Display(h[f]) \o " \n")

(* C9: the rendering shows every field, the four magic-number fields       *)
(* (chunk_id, format, sub_chunk1_id, sub_chunk2_id) in hexadecimal and the *)
(* others in decimal; the canonical stereo 44100 Hz header renders with    *)
(* 'audio_format: 1', 'num_channels: 2' and 'sample_rate: 44100'.          *)
C9_RenderShowsMagicsInHex ==
    (pc = "done" /\ ret.ok) =>
        /\ \A f \in FieldNames : Shows(stdout, ret.header, f)
        /\ (ret.header.num_channels = 2 /\ ret.header.sample_rate = 44100) =>
              /\ Contains(stdout, "audio_format: 1")
              /\ Contains(stdout, "num_channels: 2")
              /\ Contains(stdout, "sample_rate: 44100")

-----------------------------------------------------------------------------
(* Helpers of C10 *)

Newlines(s) == Cardinality({i \in 1..Len(s) : SubSeq(s, i, i) = "\n"})

IsPrefix(s, t) == Len(s) <= Len(t) /\ SubSeq(t, 1, Len(s)) = s

(* C10: the driver makes one pass read, decode, validate, render with a    *)
(* single call of the parser: on success the rendered header goes to       *)
(* standard output and the status is 0; on any failure one line goes to    *)
(* standard error, nothing goes to standard output, nothing is rendered    *)
(* and the status is 1.                                                    *)
C10_DriverOnePass ==
    /\ calls <= 1
    /\ IsPrefix(steps, <<"read", "decode", "validate", "render">>)
    /\ pc # "done" => (exit = -1 /\ stdout = "" /\ stderr = "")
    /\ pc = "done" =>
          /\ calls = 1
          /\ IF nread = 44 /\ BufferConforms(buf)
             THEN /\ exit = 0
                  /\ steps = <<"read", "decode", "validate", "render">>
                  /\ stderr = ""
                  /\ StartsWith(stdout, "\nWaveHeader {\n")
                  /\ Contains(stdout, "    sub_chunk2_size: "
                                 \o Display(header.sub_chunk2_size) \o "\n}\n\n")
             ELSE /\ exit = 1
                  /\ "render" \notin {steps[i] : i \in 1..Len(steps)}
                  /\ stdout = ""
                  /\ StartsWith(stderr, "Error: ")
                  /\ Len(stderr) > Len("Error: ") + 1
                  /\ Newlines(stderr) = 1
                  /\ SubSeq(stderr, Len(stderr), Len(stderr)) = "\n"

\* the driver has exited with status 1 after a validation failure
C10_Witness ==
    /\ pc = "done"
    /\ exit = 1
    /\ steps = <<"read", "decode", "validate">>
    /\ StartsWith(stderr, "Error: Stream must have")

=============================================================================
